---- MODULE Spec2Model ----
(***************************************************************************)
(* Model of the LinkedIn ad generation service:                            *)
(*   be/services/image_service.py   ImageGenerationService                 *)
(*   be/routers/image_generation.py /images/* handlers                     *)
(*   be/routers/streaming.py        /stream/generate handler               *)
(*                                                                         *)
(* A freshly constructed service serves one generation request and then    *)
(* modification requests.  Every stage function is one action, except that *)
(* each image loop takes one step per iteration; the outcome of each       *)
(* external call (text completion, image generation, file read and upload) *)
(* is an input drawn by the action.  uuid4() is modelled as a              *)
(* fresh natural number taken from uuidCtr.  The object returned by        *)
(* workflow.ainvoke is read as the code reads it: attribute access on the  *)
(* final WorkflowState.  capLog records the text-completion calls, the     *)
(* image-generation calls and the sleeps of the request being served.      *)
(*                                                                         *)
(* ConcSpec is the same service under several generation requests at once: *)
(* each request is a run with its own locals (runs), the runs take turns   *)
(* at their awaits and share the two stores; there the n-th uuid4() value  *)
(* of a run is a number fixed by the run and n, so that the values do not  *)
(* depend on the order of the turns.                                       *)
(* AbandonSpec is Spec with a consumer that may stop reading a stream.     *)
(***************************************************************************)
EXTENDS Integers, Sequences, FiniteSets, TLC

\* ---------------------------------------------------------------- bounds
\* modification requests served after the generation request
MaxModify == 1
\* files of the reference pool whose name starts with main_ref
MaxMain == 2
\* other files of the reference pool
MaxOther == 3
\* generation requests served at once under ConcSpec
MaxRuns == 2
\* uuid4() values one run may draw under ConcSpec (it draws at most 13)
DrawsPerRun == 16

\* ------------------------------------------------------------- constants
None == "None"
NoId == 0
RateLimitDelay == 12

\* self.styles, in order
styles == <<"professional", "modern", "creative", "minimalist", "bold">>

StageNames == <<"analyze_company", "load_references", "enhance_prompts",
                "generate_copy", "generate_images">>

VARIABLES
    llm,                    \* self.llm is not None
    openai_client,          \* self.openai_client is not None
    request,                \* the ImageGenerationRequest being served
    ep,                     \* entry point of the request being served
    pc,                     \* position inside that entry point
    sink,                   \* event_stream_callback is not None
    state,                  \* the WorkflowState threaded through the stages
    request_id,             \* request_id local of the service function
    router_request_id,      \* request_id local of the router handler
    result,                 \* value returned by the service function
    response,               \* what the router handler answers
    modify_response,        \* what the /images/modify handler answered last
    modify_request,         \* what it was asked, and the sessions stored then
    image_storage,          \* self.image_storage: key -> list of images
    generated_images_store, \* router-level store: key -> list of images
    images,                 \* the GeneratedImage objects, by id
    uuidCtr,                \* number of uuid4() values handed out
    modified,               \* modification requests served so far
    invoked,                \* stage invocations of this request, in order,
                            \* with what the reference stage found on disk
    capLog,                 \* capability calls and sleeps of this request
    stream,                 \* events yielded by the router's event_stream
    cb,                     \* events passed to event_stream_callback
    idx,                    \* the i of the image loop being run
    image_list,             \* the images list local to that loop, as ids
    runs,                   \* ConcSpec: the locals of each concurrent run
    maker,                  \* ConcSpec: the run that made each image
    fetched                 \* ConcSpec: the last GET or DELETE /request/{id}

concVars == <<runs, maker, fetched>>
cfgVars == <<llm, openai_client, request, concVars>>
runVars == <<ep, pc, sink, state, request_id, router_request_id, result, response>>
loopVars == <<idx, image_list>>
modVars == <<modified, modify_response, modify_request>>
storeVars == <<image_storage, generated_images_store, images, uuidCtr>>
logVars == <<invoked, capLog, stream, cb>>
vars == <<cfgVars, runVars, loopVars, storeVars, logVars, modVars>>

\* ------------------------------------------------------------ data model
Range(f) == {f[x] : x \in DOMAIN f}

\* WorkflowState(request=request): every optional field is None.  None and
\* the empty list are both falsy; the code only tests these fields' truth.
NoCopy == [headline |-> None, description |-> None, cta |-> None]

InitialState ==
    [company_analysis |-> None,
     enhanced_prompts |-> <<>>,
     ad_copy |-> NoCopy,
     reference_images |-> <<>>,
     generated_images |-> <<>>,
     error |-> None]

\* a ProgressEvent: images and request_id are only used by generation_complete
\* and completed, n is the number the message reports
Ev(type, step) ==
    [type |-> type, step |-> step, n |-> 0, imgs |-> <<>>, request_id |-> NoId]

\* a completion event built before the session id is known
EvDoneNoSession(type, imgs, rid) ==
    [type |-> type, step |-> "-", n |-> Len(imgs), imgs |-> imgs, request_id |-> NoId]

EvDone(type, imgs, rid) ==
    [type |-> type, step |-> "-", n |-> Len(imgs), imgs |-> imgs, request_id |-> rid]

\* the step name the progress events use for each stage
StepName(stage) ==
    CASE stage = "analyze_company" -> "company_analysis"
      [] stage = "load_references" -> "loading_references"
      [] stage = "enhance_prompts" -> "prompt_enhancement"
      [] stage = "generate_copy" -> "copy_generation"
      [] stage = "generate_images" -> "image_generation"

\* capability log entries: who made the call, for an image call its style
\* and whether it gave an image, for a sleep its length
LlmCall(by) == [kind |-> "llm", by |-> by, arg |-> "-", gave |-> "-", dur |-> 0]
\* a text-completion call that raised
LlmCallRaised(by) == [LlmCall(by) EXCEPT !.gave = "raised"]
ImageCall(by, style, out, refs, prompt) ==
    [kind |-> "image", by |-> by, arg |-> style,
     gave |-> IF out = "ok" THEN "image" ELSE "nothing", dur |-> 0,
     refs |-> refs, prompt |-> prompt]
UploadCall(by) == [kind |-> "upload", by |-> by, arg |-> "-", gave |-> "-", dur |-> 0]
Sleep(by) ==
    [kind |-> "sleep", by |-> by, arg |-> "-", gave |-> "-", dur |-> RateLimitDelay]

LlmOutcomes == {"ok", "raise"}
ImageOutcomes == {"ok", "no_payload", "raise"}

\* --------------------------------------------------------- the workflow
\* _create_workflow: entry point and edges; every edge is unconditional
WorkflowEntry == "analyze_company"

\* the edges with load_references and enhance_prompts exchanged
WorkflowEdgesExchanged ==
    [n \in {"analyze_company", "load_references", "enhance_prompts",
            "generate_copy", "generate_images"} |->
        CASE n = "analyze_company" -> "enhance_prompts"
          [] n = "enhance_prompts" -> "load_references"
          [] n = "load_references" -> "generate_copy"
          [] n = "generate_copy" -> "generate_images"
          [] n = "generate_images" -> "END"]

WorkflowEdges ==
    [n \in {"analyze_company", "load_references", "enhance_prompts",
            "generate_copy", "generate_images"} |->
        CASE n = "analyze_company" -> "load_references"
          [] n = "load_references" -> "enhance_prompts"
          [] n = "enhance_prompts" -> "generate_copy"
          [] n = "generate_copy" -> "generate_images"
          [] n = "generate_images" -> "END"]

\* the order in which generate_images_with_progress calls the stages
HandSequence ==
    [n \in {"analyze_company", "load_references", "enhance_prompts",
            "generate_copy"} |->
        CASE n = "analyze_company" -> "load_references"
          [] n = "load_references" -> "enhance_prompts"
          [] n = "enhance_prompts" -> "generate_copy"
          [] n = "generate_copy" -> "generate_images"]

GraphDriven == {"generate", "workflow"}
HandSequenced == {"images_stream", "progress"}
Streamed == {"images_stream", "stream_generate"}

\* where control goes when a stage has returned state s
AfterStage(stage, s) ==
    IF ep \in GraphDriven
    THEN (IF WorkflowEdges[stage] = "END" THEN "graph_end" ELSE WorkflowEdges[stage])
    ELSE IF s.error # None THEN "except"
    ELSE HandSequence[stage]

\* ------------------------------------------------------ stage functions
\* Each stage operator takes the state and the outcome(s) of its external
\* calls and gives the returned state and the calls it made.

\* an analysis stage that calls the text capability without looking at
\* the handle
AnalyzeCompanyUnguarded(s, out) ==
    IF out = "ok"
    THEN [s |-> [s EXCEPT !.company_analysis = "llm_analysis"],
          log |-> <<LlmCall("analyze_company")>>]
    ELSE [s |-> [s EXCEPT !.error = "Company analysis failed"],
          log |-> <<LlmCallRaised("analyze_company")>>]

\* _analyze_company
AnalyzeCompany(s, out) ==
    IF ~llm
    THEN [s |-> [s EXCEPT !.company_analysis = "fallback_analysis"], log |-> <<>>]
    ELSE IF out = "ok"
    THEN [s |-> [s EXCEPT !.company_analysis = "llm_analysis"],
          log |-> <<LlmCall("analyze_company")>>]
    ELSE [s |-> [s EXCEPT !.error = "Company analysis failed"],
          log |-> <<LlmCallRaised("analyze_company")>>]

\* the reference pool: ref_imgs_path.exists(), the main_ref* files and the
\* other image files
Pools ==
    [exists : BOOLEAN, main : SUBSET (1..MaxMain), other : SUBSET (1..MaxOther)]

MainFile(i) == <<"main_ref", i>>
OtherFile(i) == <<"other", i>>

\* a sample drawn with replacement
SamplesRepeating(S) ==
    LET k == IF Cardinality(S) < 2 THEN Cardinality(S) ELSE 2
    IN [1..k -> S]

\* random.sample(other_files, min(2, len(other_files))): the ordered samples
Samples(S) ==
    LET k == IF Cardinality(S) < 2 THEN Cardinality(S) ELSE 2
    IN {q \in [1..k -> S] : \A i, j \in 1..k : i # j => q[i] # q[j]}

FileOutcomes == {"ok", "unreadable", "upload_fails"}

\* one `with open(...)` block of _load_reference_images: the reference is
\* appended only when the file was read and files.create returned; without
\* a client the files.create attribute access raises
LoadOne(acc, file, out) ==
    IF out = "unreadable" THEN acc
    ELSE IF ~openai_client THEN acc
    ELSE IF out = "upload_fails"
    THEN [acc EXCEPT !.log = Append(@, UploadCall("load_references"))]
    ELSE [acc EXCEPT !.refs = Append(@, file),
                     !.log = Append(@, UploadCall("load_references"))]

RECURSIVE LoadOthers(_, _, _, _)
LoadOthers(acc, picks, outs, i) ==
    IF i > Len(picks) THEN acc
    ELSE LoadOthers(LoadOne(acc, OtherFile(picks[i]), outs[i]), picks, outs, i + 1)

\* a stage that takes a missing directory for a failure
LoadReferenceImagesOrFail(s, pool, mainPick, mainOut, picks, outs) ==
    [s |-> IF pool.exists
           THEN [s EXCEPT !.reference_images = <<>>]
           ELSE [s EXCEPT !.error = "Reference loading failed"],
     log |-> <<>>,
     note |-> IF pool.exists THEN "directory" ELSE "no_directory"]

\* _load_reference_images: pool is the directory, mainPick the random.choice
\* among the main_ref files, picks the random.sample of the others, mainOut
\* and outs what reading and uploading each chosen file does
LoadReferenceImages(s, pool, mainPick, mainOut, picks, outs) ==
    LET empty == [refs |-> <<>>, log |-> <<>>]
        hasFiles == pool.exists /\ (pool.main \cup pool.other) # {}
        afterMain ==
            IF hasFiles /\ pool.main # {}
            THEN LoadOne(empty, MainFile(mainPick), mainOut)
            ELSE empty
        afterOthers ==
            IF hasFiles /\ pool.other # {}
            THEN LoadOthers(afterMain, picks, outs, 1)
            ELSE afterMain
    IN [s |-> [s EXCEPT !.reference_images = afterOthers.refs],
        log |-> afterOthers.log,
        note |-> IF pool.exists THEN "directory" ELSE "no_directory"]

\* a prompt built for the first style whatever the style asked for
EnhancedPromptFirstStyle(style) == <<"enhanced_prompt", "professional">>

\* _create_fallback_prompt_for_style / the text returned by the model
FallbackPromptForStyle(style) == <<"fallback_prompt_for_style", style>>
EnhancedPrompt(style) == <<"enhanced_prompt", style>>

\* the per-style loop of _enhance_prompts: a raising call leaves the loop
RECURSIVE EnhanceLoop(_, _, _)
EnhanceLoop(i, outs, acc) ==
    IF i > Len(styles) THEN acc
    ELSE IF ~llm
    THEN EnhanceLoop(i + 1, outs,
            [acc EXCEPT !.prompts = Append(@, FallbackPromptForStyle(styles[i]))])
    ELSE IF outs[i] = "raise"
    THEN [acc EXCEPT !.log = Append(@, LlmCallRaised("enhance_prompts")),
                     !.raised = TRUE]
    ELSE EnhanceLoop(i + 1, outs,
            [acc EXCEPT !.prompts = Append(@, EnhancedPrompt(styles[i])),
                        !.log = Append(@, LlmCall("enhance_prompts"))])

\* a stage that goes on to the next style when a call raises and keeps
\* the prompts it got
EnhancePromptsTolerant(s, outs) ==
    LET got == SelectSeq([i \in 1..Len(styles) |-> i],
                         LAMBDA i : ~llm \/ outs[i] = "ok")
    IN [s |-> [s EXCEPT !.enhanced_prompts =
                  [j \in 1..Len(got) |->
                      IF llm THEN EnhancedPrompt(styles[got[j]])
                      ELSE FallbackPromptForStyle(styles[got[j]])]],
        log |-> IF llm
                THEN [i \in 1..Len(styles) |->
                         IF outs[i] = "ok" THEN LlmCall("enhance_prompts")
                         ELSE LlmCallRaised("enhance_prompts")]
                ELSE <<>>]

\* _enhance_prompts
EnhancePrompts(s, outs) ==
    LET r == EnhanceLoop(1, outs, [prompts |-> <<>>, log |-> <<>>, raised |-> FALSE])
    IN IF r.raised
       THEN [s |-> [s EXCEPT !.error = "Prompt enhancement failed"], log |-> r.log]
       ELSE [s |-> [s EXCEPT !.enhanced_prompts = r.prompts], log |-> r.log]

\* what the text capability does with the copy prompt: it raises, answers
\* text that is not JSON, answers JSON that follows or ignores the two
\* "override ... with this text" lines appended to the prompt, or answers
\* JSON without the description and cta keys
CopyOutcomes == {"raise", "unparseable", "json_obeys", "json_ignores", "json_partial"}

\* _generate_ad_copy: state.ad_copy is whatever json.loads returned (a
\* key the answer lacks is None here)
GenerateAdCopy(s, out) ==
    IF ~llm
    THEN [s |-> [s EXCEPT !.ad_copy =
                    [headline |-> "Transform Your Business with",
                     description |-> "Discover how",
                     cta |-> "Book a Call"]],
          log |-> <<>>]
    ELSE IF out = "raise"
    THEN [s |-> [s EXCEPT !.ad_copy =
                    [headline |-> "What if",
                     description |-> "Discover the proven solution",
                     cta |-> "Book a Call"]],
          log |-> <<LlmCallRaised("generate_copy")>>]
    ELSE IF out = "unparseable"
    THEN [s |-> [s EXCEPT !.ad_copy =
                    [headline |-> "Ready to Transform",
                     description |-> "See how",
                     cta |-> "Book a Call"]],
          log |-> <<LlmCall("generate_copy")>>]
    ELSE IF out = "json_obeys"
    THEN [s |-> [s EXCEPT !.ad_copy =
                    [headline |-> "llm headline",
                     description |-> IF request.body_text # "" THEN request.body_text
                                     ELSE "llm description",
                     cta |-> IF request.footer_text # "" THEN request.footer_text
                             ELSE "llm cta"]],
          log |-> <<LlmCall("generate_copy")>>]
    ELSE IF out = "json_partial"
    THEN [s |-> [s EXCEPT !.ad_copy =
                    [headline |-> "llm headline",
                     description |-> None,
                     cta |-> None]],
          log |-> <<LlmCall("generate_copy")>>]
    ELSE [s |-> [s EXCEPT !.ad_copy =
                    [headline |-> "llm headline",
                     description |-> "llm description",
                     cta |-> "llm cta"]],
          log |-> <<LlmCall("generate_copy")>>]

\* ------------------------------------------------------ image generation
\* a GeneratedImage; url is the kind of location it points to
GeneratedImage(id, url, style, prompt, rid) ==
    [id |-> id, url |-> url, style |-> style, prompt_used |-> prompt,
     request_id |-> rid]

\* _generate_single_image: without a client the placeholder is returned at
\* once; a capability error, or an answer without an image_generation_call
\* (response.output is a list: reading .content of it raises), ends in the
\* except branch, which returns the error placeholder.  It never raises.
\* the `state` parameter of _generate_single_image as its callers leave
\* it (lines 495, 795, 871 pass prompt, style and request_id): the default
DefaultState == None

\* the reference images put in the content of the call (lines 537-550)
CallReferences(st) == IF st = None THEN <<>> ELSE st.reference_images

GenerateSingleImage(prompt, style, rid, out, id, by) ==
    IF ~openai_client
    THEN [log |-> <<>>,
          img |-> GeneratedImage(id, "placeholder_nokey", style, prompt, rid)]
    ELSE IF out = "ok"
    THEN [log |-> <<ImageCall(by, style, out, CallReferences(DefaultState), prompt)>>,
          img |-> GeneratedImage(id, "static", style, prompt, rid)]
    ELSE [log |-> <<ImageCall(by, style, out, CallReferences(DefaultState), prompt)>>,
          img |-> GeneratedImage(id, "placeholder_error", style, prompt, rid)]

\* a loop that starts pacing one iteration late
PaceBeforeFromThird(i, by) == IF i > 1 THEN <<Sleep(by)>> ELSE <<>>

\* `if i > 0: await asyncio.sleep(12)`, i counted from 0
PaceBefore(i, by) == IF i > 0 THEN <<Sleep(by)>> ELSE <<>>

Min(a, b) == IF a < b THEN a ELSE b

\* a loop that leaves out the last pair
ZippedButLast(prompts) == Min(Len(prompts), Len(styles)) - 1

\* the number of iterations of a loop over zip(prompts, self.styles)
Zipped(prompts) == Min(Len(prompts), Len(styles))

\* a fallback loop that asks for the first style every time
FallbackStyleRepeated(i) == styles[1]

\* a fallback loop that walks the styles from the last to the first
FallbackStyleReversed(i) == styles[Len(styles) + 1 - i]

\* `for style in self.styles` of _fallback_generation: the style of the
\* i-th iteration
FallbackStyle(i) == styles[i]

\* _create_fallback_prompt
FallbackPrompt(style) == <<"fallback_prompt", style>>

\* `if not image.request_id: image.request_id = request_id`
Backfill(img, rid) ==
    IF img.request_id = NoId THEN [img EXCEPT !.request_id = rid] ELSE img

\* `image.request_id = request_id`
Relabel(img, rid) == [img EXCEPT !.request_id = rid]

\* ------------------------------------------------------------ the state
NoResponse == [status |-> "none", code |-> 0, request_id |-> NoId, imgs |-> <<>>]

\* the requests served: the two free-text fields empty, or both given
Requests ==
    {[body_text |-> "", footer_text |-> ""],
     [body_text |-> "Test body text", footer_text |-> "Test CTA"]}

\* the concurrent runs, and the locals of a request not yet received
Runs == 1..MaxRuns
IdleRun ==
    [ep |-> "idle", pc |-> "idle", state |-> InitialState, request_id |-> NoId,
     router_request_id |-> NoId, idx |-> 0, image_list |-> <<>>,
     result |-> <<>>, wrote |-> {}, drawn |-> 0]

\* ImageGenerationService.__init__ and the routers' module-level stores:
\* both handles exist exactly when OPENAI_API_KEY is set
Init ==
    /\ llm \in BOOLEAN
    /\ openai_client = llm
    /\ request \in Requests
    /\ ep = "idle"
    /\ pc = "idle"
    /\ sink = FALSE
    /\ state = InitialState
    /\ request_id = NoId
    /\ router_request_id = NoId
    /\ result = <<>>
    /\ response = NoResponse
    /\ modified = 0
    /\ modify_response = [status |-> "none", code |-> 0, image |-> <<>>]
    /\ modify_request = [url |-> None, instruction |-> None, sessions |-> {}]
    /\ image_storage = <<>>
    /\ generated_images_store = <<>>
    /\ images = <<>>
    /\ uuidCtr = 0
    /\ invoked = <<>>
    /\ capLog = <<>>
    /\ stream = <<>>
    /\ cb = <<>>
    /\ idx = 0
    /\ image_list = <<>>
    /\ runs = [r \in Runs |-> IdleRun]
    /\ maker = <<>>
    /\ fetched = [op |-> "none", key |-> NoId, code |-> 0, body |-> <<>>]

\* the outcomes of one image call: it gives an image, raises, or answers
\* without a payload; no outcome is drawn for a call that cannot be made
ImageOutcomesHere == IF openai_client THEN ImageOutcomes ELSE {"ok"}

\* the events the caller of this request sees
Channel == IF sink THEN cb ELSE stream

\* whether the stages' progress events have a sink to go to
Emits == ep \in HandSequenced /\ sink

\* --------------------------------------------------------- entry points
\* POST /images/generate: the router draws its request_id and awaits
\* image_service.generate_images, which runs the compiled workflow
StartGenerate ==
    /\ pc = "idle"
    /\ ep' = "generate"
    /\ router_request_id' = uuidCtr + 1
    /\ uuidCtr' = uuidCtr + 1
    /\ state' = InitialState
    /\ pc' = WorkflowEntry
    /\ UNCHANGED <<cfgVars, loopVars, sink, request_id, result, response, modVars,
                   image_storage, generated_images_store, images, logVars>>

\* image_service.generate_images_with_workflow called directly
StartWorkflow ==
    /\ pc = "idle"
    /\ ep' = "workflow"
    /\ state' = InitialState
    /\ pc' = WorkflowEntry
    /\ UNCHANGED <<cfgVars, loopVars, sink, request_id, router_request_id, result, response,
                   modVars, storeVars, logVars>>

\* POST /images/generate/stream: event_stream draws the router's
\* request_id and yields started (lines 66-70)
StartImagesStream ==
    /\ pc = "idle"
    /\ ep' = "images_stream"
    /\ sink' = FALSE
    /\ router_request_id' = uuidCtr + 1
    /\ stream' = <<[Ev("started", "-") EXCEPT !.request_id = uuidCtr + 1]>>
    /\ uuidCtr' = uuidCtr + 1
    /\ state' = InitialState
    /\ pc' = "started"
    /\ UNCHANGED <<cfgVars, loopVars, request_id, result, response, modVars,
                   image_storage, generated_images_store, images, invoked,
                   capLog, cb>>

\* event_stream asked for its next event: it awaits
\* generate_images_with_progress(request) -- no callback is passed (line
\* 80) -- which draws its request_id (line 667)
ImagesStreamResume ==
    /\ pc = "started"
    /\ ep = "images_stream"
    /\ request_id' = uuidCtr + 1
    /\ uuidCtr' = uuidCtr + 1
    /\ pc' = "analyze_company"
    /\ UNCHANGED <<cfgVars, loopVars, ep, sink, state, router_request_id, result,
                   response, modVars, image_storage, generated_images_store,
                   images, logVars>>

\* image_service.generate_images_with_progress(request, callback)
StartProgress ==
    /\ pc = "idle"
    /\ ep' = "progress"
    /\ sink' = TRUE
    /\ request_id' = uuidCtr + 1
    /\ uuidCtr' = uuidCtr + 1
    /\ state' = InitialState
    /\ pc' = "analyze_company"
    /\ UNCHANGED <<cfgVars, loopVars, router_request_id, result, response, modVars,
                   image_storage, generated_images_store, images, logVars>>

\* POST /stream/generate.  `import uuid` inside event_stream (line 45) makes
\* uuid a local name of the generator, so `uuid.uuid4()` on line 23 raises
\* UnboundLocalError before anything is yielded; the outer handler (line
\* 178) yields the error event and control reaches the last yield.  The
\* body after line 23, with the `return` of its inner handler (line 136)
\* that would leave without the last yield, is therefore never run.
StartStreamGenerate ==
    /\ pc = "idle"
    /\ ep' = "stream_generate"
    /\ stream' = <<Ev("error", "-")>>
    /\ pc' = "end_event"
    /\ UNCHANGED <<cfgVars, loopVars, sink, state, request_id, router_request_id, result,
                   response, modVars, storeVars, invoked, capLog, cb>>

\* ------------------------------------------------------------ the stages
\* what every stage step does with the returned state r.s and calls r.log:
\* the hand-sequenced run reports progress before and step_completed after
\* a stage that set no error
StageStep(stage, r) ==
    LET before == IF Emits THEN <<Ev("progress", StepName(stage))>> ELSE <<>>
        after == IF Emits /\ r.s.error = None
                 THEN <<Ev("step_completed", StepName(stage))>>
                 ELSE <<>>
    IN /\ state' = r.s
       /\ capLog' = capLog \o r.log
       /\ cb' = cb \o before \o after
       /\ invoked' = Append(invoked,
                        [stage |-> stage, errBefore |-> state.error,
                         seen |-> Len(Channel) + Len(before),
                         note |-> IF "note" \in DOMAIN r THEN r.note ELSE "-"])
       /\ pc' = AfterStage(stage, r.s)
       /\ UNCHANGED <<cfgVars, loopVars, ep, sink, request_id, router_request_id, result,
                      response, modVars, storeVars, stream>>

AnalyzeCompanyStep ==
    /\ pc = "analyze_company"
    /\ \E out \in LlmOutcomes : StageStep("analyze_company", AnalyzeCompany(state, out))

LoadReferenceImagesStep ==
    /\ pc = "load_references"
    /\ \E pool \in Pools :
       \E mainPick \in (IF pool.main = {} THEN {0} ELSE pool.main) :
       \E picks \in Samples(pool.other) :
       \E mainOut \in FileOutcomes :
       \E outs \in [1..Len(picks) -> FileOutcomes] :
          StageStep("load_references",
                    LoadReferenceImages(state, pool, mainPick, mainOut, picks, outs))

EnhancePromptsStep ==
    /\ pc = "enhance_prompts"
    /\ \E outs \in [1..Len(styles) -> LlmOutcomes] :
          StageStep("enhance_prompts", EnhancePrompts(state, outs))

GenerateAdCopyStep ==
    /\ pc = "generate_copy"
    /\ \E out \in CopyOutcomes : StageStep("generate_copy", GenerateAdCopy(state, out))

\* _generate_images_node up to its loop (lines 476-484): without prompts
\* the ValueError is caught and the error set; else the request_id is drawn
GenerateImagesNodeStep ==
    /\ pc = "generate_images"
    /\ ep \in GraphDriven
    /\ invoked' = Append(invoked,
                     [stage |-> "generate_images", errBefore |-> state.error,
                      seen |-> Len(Channel), note |-> "-"])
    /\ IF state.enhanced_prompts = <<>>
       THEN /\ state' = [state EXCEPT !.error = "Image generation failed"]
            /\ pc' = AfterStage("generate_images", state')
            /\ UNCHANGED <<request_id, uuidCtr>>
       ELSE /\ request_id' = uuidCtr + 1
            /\ uuidCtr' = uuidCtr + 1
            /\ pc' = "node_loop"
            /\ UNCHANGED state
    /\ UNCHANGED <<cfgVars, loopVars, ep, sink, router_request_id, result, response,
                   modVars, image_storage, generated_images_store, images,
                   capLog, stream, cb>>

\* one iteration of the loop of _generate_images_node (lines 485-502);
\* idx is the code's i
NodeLoopStep ==
    /\ pc = "node_loop"
    /\ idx < Zipped(state.enhanced_prompts)
    /\ \E out \in ImageOutcomesHere :
          LET one == GenerateSingleImage(state.enhanced_prompts[idx + 1],
                                         styles[idx + 1], request_id, out,
                                         uuidCtr + 1, "generate_images")
          IN /\ capLog' = capLog \o PaceBefore(idx, "generate_images") \o one.log
             /\ images' = (one.img.id :> one.img) @@ images
             /\ image_list' = Append(image_list, one.img.id)
    /\ uuidCtr' = uuidCtr + 1
    /\ idx' = idx + 1
    /\ UNCHANGED <<cfgVars, runVars, modVars, image_storage, generated_images_store,
                   invoked, stream, cb>>

\* _generate_images_node after its loop (lines 504-514)
NodeLoopEnd ==
    /\ pc = "node_loop"
    /\ idx = Zipped(state.enhanced_prompts)
    /\ state' = [state EXCEPT !.generated_images = image_list]
    /\ image_storage' = IF image_list # <<>>
                        THEN (request_id :> image_list) @@ image_storage
                        ELSE image_storage
    /\ idx' = 0
    /\ image_list' = <<>>
    /\ pc' = AfterStage("generate_images", state')
    /\ UNCHANGED <<cfgVars, ep, sink, request_id, router_request_id, result,
                   response, modVars, generated_images_store, images, uuidCtr,
                   logVars>>

\* the WorkflowState is a local of the service function: once the function
\* no longer reads it, it is gone
Dropped == InitialState

\* where control goes when the service function returns
AfterReturn == IF ep \in {"generate", "images_stream"} THEN "returned" ELSE "done"

\* step 5 of generate_images_with_progress up to its loop (lines 766-777)
ProgressImagesStep ==
    /\ pc = "generate_images"
    /\ ep \in HandSequenced
    /\ LET before == IF Emits THEN <<Ev("progress", "image_generation")>> ELSE <<>>
       IN /\ cb' = cb \o before
          /\ invoked' = Append(invoked,
                           [stage |-> "generate_images", errBefore |-> state.error,
                            seen |-> Len(Channel) + Len(before), note |-> "-"])
    /\ pc' = "progress_loop"
    /\ UNCHANGED <<cfgVars, loopVars, ep, sink, state, request_id, router_request_id,
                   result, response, modVars, storeVars, capLog, stream>>

\* one iteration of the loop of generate_images_with_progress (lines
\* 778-819): as in the node, with a progress event before the image and an
\* image_ready event after it
ProgressLoopStep ==
    /\ pc = "progress_loop"
    /\ idx < Zipped(state.enhanced_prompts)
    /\ \E out \in ImageOutcomesHere :
          LET one == GenerateSingleImage(state.enhanced_prompts[idx + 1],
                                         styles[idx + 1], request_id, out,
                                         uuidCtr + 1, "generate_images")
              before == Ev("progress", "image_generation")
              ready == [Ev("image_ready", "image_generation")
                          EXCEPT !.imgs = <<one.img.id>>, !.n = idx + 1]
          IN /\ capLog' = capLog \o PaceBefore(idx, "generate_images") \o one.log
             /\ images' = (one.img.id :> one.img) @@ images
             /\ image_list' = Append(image_list, one.img.id)
             /\ cb' = IF Emits THEN cb \o <<before, ready>> ELSE cb
    /\ uuidCtr' = uuidCtr + 1
    /\ idx' = idx + 1
    /\ UNCHANGED <<cfgVars, runVars, modVars, image_storage, generated_images_store,
                   invoked, stream>>

\* generate_images_with_progress after its loop (lines 821-852): the store
\* under the request_id drawn at the start, the backfill, the
\* generation_complete event and the return
ProgressLoopEnd ==
    /\ pc = "progress_loop"
    /\ idx = Zipped(state.enhanced_prompts)
    /\ image_storage' = IF image_list # <<>>
                        THEN (request_id :> image_list) @@ image_storage
                        ELSE image_storage
    /\ images' = [id \in DOMAIN images |->
                    IF id \in Range(image_list)
                    THEN Backfill(images[id], request_id)
                    ELSE images[id]]
    /\ cb' = IF Emits /\ image_list # <<>>
             THEN Append(cb, EvDone("generation_complete", image_list, request_id))
             ELSE cb
    /\ result' = image_list
    /\ idx' = 0
    /\ image_list' = <<>>
    /\ state' = Dropped
    /\ pc' = AfterReturn
    /\ UNCHANGED <<cfgVars, ep, sink, request_id, router_request_id, response,
                   modVars, generated_images_store, uuidCtr, invoked, capLog, stream>>

\* the except branch of generate_images_with_progress (lines 854-860): the
\* pipeline-level error event, then the fallback
ProgressExcept ==
    /\ pc = "except"
    /\ cb' = IF Emits THEN Append(cb, Ev("error", "-")) ELSE cb
    /\ state' = Dropped
    /\ pc' = "fallback"
    /\ UNCHANGED <<cfgVars, loopVars, ep, sink, request_id, router_request_id, result,
                   response, modVars, storeVars, invoked, capLog, stream>>

\* generate_images after workflow.ainvoke (lines 640-655)
GenerateImagesReturn ==
    /\ pc = "graph_end"
    /\ ep = "generate"
    /\ IF state.error # None \/ state.generated_images = <<>>
       THEN /\ pc' = "fallback"
            /\ UNCHANGED <<request_id, result, storeVars>>
       ELSE LET rid == uuidCtr + 1
            IN /\ request_id' = rid
               /\ uuidCtr' = uuidCtr + 1
               /\ image_storage' = (rid :> state.generated_images) @@ image_storage
               /\ images' = [id \in DOMAIN images |->
                               IF id \in Range(state.generated_images)
                               THEN Relabel(images[id], rid)
                               ELSE images[id]]
               /\ result' = state.generated_images
               /\ pc' = AfterReturn
               /\ UNCHANGED generated_images_store
    /\ state' = Dropped
    /\ UNCHANGED <<cfgVars, loopVars, ep, sink, router_request_id, response, modVars, logVars>>

\* generate_images_with_workflow after workflow.ainvoke (lines 1084-1102):
\* None when the state carries an error or no image
WorkflowReturn ==
    /\ pc = "graph_end"
    /\ ep = "workflow"
    /\ IF state.error # None \/ state.generated_images = <<>>
       THEN /\ result' = <<>>
            /\ UNCHANGED <<request_id, storeVars>>
       ELSE LET rid == uuidCtr + 1
            IN /\ request_id' = rid
               /\ uuidCtr' = uuidCtr + 1
               /\ image_storage' = (rid :> state.generated_images) @@ image_storage
               /\ images' = [id \in DOMAIN images |->
                               IF id \in Range(state.generated_images)
                               THEN Relabel(images[id], rid)
                               ELSE images[id]]
               /\ result' = state.generated_images
               /\ UNCHANGED generated_images_store
    /\ state' = Dropped
    /\ pc' = "done"
    /\ UNCHANGED <<cfgVars, loopVars, ep, sink, router_request_id, response, modVars, logVars>>

\* _fallback_generation up to its loop (lines 866-867), reached from
\* generate_images and from the except branch of
\* generate_images_with_progress
FallbackGenerationStep ==
    /\ pc = "fallback"
    /\ request_id' = uuidCtr + 1
    /\ uuidCtr' = uuidCtr + 1
    /\ pc' = "fallback_loop"
    /\ UNCHANGED <<cfgVars, loopVars, ep, sink, state, router_request_id, result,
                   response, modVars, image_storage, generated_images_store, images,
                   logVars>>

\* one iteration of the loop of _fallback_generation (lines 869-872): no
\* sleep between the calls
FallbackLoopStep ==
    /\ pc = "fallback_loop"
    /\ idx < Len(styles)
    /\ \E out \in ImageOutcomesHere :
          LET one == GenerateSingleImage(FallbackPrompt(FallbackStyle(idx + 1)),
                                         FallbackStyle(idx + 1), request_id, out,
                                         uuidCtr + 1, "fallback")
          IN /\ capLog' = capLog \o one.log
             /\ images' = (one.img.id :> one.img) @@ images
             /\ image_list' = Append(image_list, one.img.id)
    /\ uuidCtr' = uuidCtr + 1
    /\ idx' = idx + 1
    /\ UNCHANGED <<cfgVars, runVars, modVars, image_storage, generated_images_store,
                   invoked, stream, cb>>

\* _fallback_generation after its loop (lines 874-878)
FallbackLoopEnd ==
    /\ pc = "fallback_loop"
    /\ idx = Len(styles)
    /\ image_storage' = IF image_list # <<>>
                        THEN (request_id :> image_list) @@ image_storage
                        ELSE image_storage
    /\ result' = image_list
    /\ idx' = 0
    /\ image_list' = <<>>
    /\ pc' = AfterReturn
    /\ UNCHANGED <<cfgVars, ep, sink, state, request_id, router_request_id,
                   response, modVars, generated_images_store, images, uuidCtr,
                   logVars>>

\* ---------------------------------------------------------- router tails
\* the copies ([img.dict() for img in images]) the routers keep
Dicts(ids) == [i \in 1..Len(ids) |-> images[ids[i]]]

\* POST /images/generate after the service returned (lines 37-56)
RouterGenerateReturn ==
    /\ pc = "returned"
    /\ ep = "generate"
    /\ IF result = <<>>
       THEN /\ response' = [NoResponse EXCEPT !.status = "error", !.code = 500]
            /\ UNCHANGED generated_images_store
       ELSE /\ generated_images_store' =
                  (router_request_id :> Dicts(result)) @@ generated_images_store
            /\ response' = [status |-> "success", code |-> 200,
                            request_id |-> router_request_id, imgs |-> result]
    /\ pc' = "done"
    /\ UNCHANGED <<cfgVars, loopVars, ep, sink, state, request_id, router_request_id, result,
                   modVars, image_storage, images, uuidCtr, logVars>>

\* POST /images/generate/stream after the service returned (lines 82-92)
ImagesStreamReturn ==
    /\ pc = "returned"
    /\ ep = "images_stream"
    /\ IF result # <<>>
       THEN /\ generated_images_store' =
                  (router_request_id :> Dicts(result)) @@ generated_images_store
            /\ stream' = Append(stream, EvDone("completed", result, router_request_id))
       ELSE /\ stream' = Append(stream, Ev("error", "-"))
            /\ UNCHANGED generated_images_store
    /\ pc' = "end_event"
    /\ UNCHANGED <<cfgVars, loopVars, ep, sink, state, request_id, router_request_id, result,
                   response, modVars, image_storage, images, uuidCtr, invoked,
                   capLog, cb>>

\* a generator that returns without its last yield
StreamTailMissing == <<>>

\* what both event_stream generators yield after their try statement
StreamTail == <<Ev("end", "-")>>

\* the last yield of event_stream (image_generation.py 98, streaming.py 182)
StreamEnd ==
    /\ pc = "end_event"
    /\ stream' = stream \o StreamTail
    /\ pc' = "done"
    /\ UNCHANGED <<cfgVars, loopVars, ep, sink, state, request_id, router_request_id, result,
                   response, modVars, storeVars, invoked, capLog, cb>>

\* ----------------------------------------------------------- modification
\* the modification instructions a request may carry
Instructions == {"brighter", "no people"}

\* modified_prompt of modify_image (lines 927-943), part by part: a fixed
\* opening, the request's modification_prompt, and the LinkedIn best
\* practices to keep
ModifiedPrompt(instr) ==
    <<<<"modification_request", "-">>, <<"instruction", instr>>,
      <<"best_practices", "-">>>>

\* a modification that gives its image the uuid drawn last before it
ModifyImageSameId(url, instr, up, out, id) ==
    [raised |-> FALSE, log |-> <<>>,
     img |-> <<GeneratedImage(id - 1, "static", "professional",
                              ModifiedPrompt(instr), NoId)>>]

\* modify_image of the service: url is the kind of location the request's
\* original_image_url names, up what reading and uploading that file does,
\* out what the image capability does.  Without a client a placeholder is
\* returned; every failure of the rest is re-raised.
ModifyImage(url, instr, up, out, id) ==
    IF ~openai_client
    THEN [raised |-> FALSE, log |-> <<>>,
          img |-> <<GeneratedImage(id, "placeholder_modified", "professional",
                                   ModifiedPrompt(instr), NoId)>>]
    ELSE IF url # "static" \/ up = "unreadable"
    THEN [raised |-> TRUE, log |-> <<>>, img |-> <<>>]
    ELSE IF up # "ok"
    THEN [raised |-> TRUE, log |-> <<UploadCall("modify")>>, img |-> <<>>]
    ELSE IF out # "ok"
    THEN [raised |-> TRUE, img |-> <<>>,
          log |-> <<UploadCall("modify"), ImageCall("modify", "professional", out, <<"original_image">>,
                              ModifiedPrompt(instr))>>]
    ELSE [raised |-> FALSE,
          log |-> <<UploadCall("modify"), ImageCall("modify", "professional", out, <<"original_image">>,
                              ModifiedPrompt(instr))>>,
          img |-> <<GeneratedImage(id, "static", "professional",
                                   ModifiedPrompt(instr), NoId)>>]

\* POST /images/modify (router lines 112-132), a new request: it names the
\* location of an image the generation returned, or a location that names no
\* generated file
ModifyImageStep ==
    /\ pc = "done"
    /\ modified < MaxModify
    /\ \E url \in {images[t].url : t \in Range(result)} \cup {"unknown"} :
       \E instr \in Instructions :
       \E up \in FileOutcomes :
       \E out \in ImageOutcomes :
          LET r == ModifyImage(url, instr, up, out, uuidCtr + 1)
          IN /\ capLog' = r.log
             /\ modify_request' = [url |-> url, instruction |-> instr,
                                   sessions |-> DOMAIN image_storage]
             /\ uuidCtr' = IF r.raised THEN uuidCtr ELSE uuidCtr + 1
             /\ modify_response' =
                    IF r.raised
                    THEN [status |-> "error", code |-> 500, image |-> <<>>]
                    ELSE [status |-> "success", code |-> 200, image |-> r.img]
    /\ modified' = modified + 1
    /\ ep' = "modify"
    /\ invoked' = <<>>
    /\ stream' = <<>>
    /\ cb' = <<>>
    /\ UNCHANGED <<cfgVars, loopVars, pc, sink, state, request_id, router_request_id, result,
                   response, image_storage, generated_images_store, images>>

\* ------------------------------------------------------ the specification
Next ==
    \/ StartGenerate
    \/ StartWorkflow
    \/ StartImagesStream
    \/ StartProgress
    \/ StartStreamGenerate
    \/ ImagesStreamResume
    \/ AnalyzeCompanyStep
    \/ LoadReferenceImagesStep
    \/ EnhancePromptsStep
    \/ GenerateAdCopyStep
    \/ GenerateImagesNodeStep
    \/ NodeLoopStep
    \/ NodeLoopEnd
    \/ ProgressImagesStep
    \/ ProgressLoopStep
    \/ ProgressLoopEnd
    \/ ProgressExcept
    \/ GenerateImagesReturn
    \/ WorkflowReturn
    \/ FallbackGenerationStep
    \/ FallbackLoopStep
    \/ FallbackLoopEnd
    \/ RouterGenerateReturn
    \/ ImagesStreamReturn
    \/ StreamEnd
    \/ ModifyImageStep

Spec == Init /\ [][Next]_vars

\* every handler is a coroutine the event loop keeps running: a request
\* that can take a step eventually takes it
Serving ==
    \/ ImagesStreamResume
    \/ AnalyzeCompanyStep
    \/ LoadReferenceImagesStep
    \/ EnhancePromptsStep
    \/ GenerateAdCopyStep
    \/ GenerateImagesNodeStep
    \/ NodeLoopStep
    \/ NodeLoopEnd
    \/ ProgressImagesStep
    \/ ProgressLoopStep
    \/ ProgressLoopEnd
    \/ ProgressExcept
    \/ GenerateImagesReturn
    \/ WorkflowReturn
    \/ FallbackGenerationStep
    \/ FallbackLoopStep
    \/ FallbackLoopEnd
    \/ RouterGenerateReturn
    \/ ImagesStreamReturn
    \/ StreamEnd

FairSpec == Spec /\ WF_vars(Serving)

\* ------------------------------------------------- an abandoned stream
\* The pipeline run of a streamed request is not a task of its own: it is
\* awaited inside the event_stream generator (image_generation.py line 80),
\* and a generator runs only while its consumer asks for the next event.
\* A consumer that stops reading leaves the generator suspended at the
\* yield it last read from: after started, or after completed / error.
ConsumerAbandons ==
    /\ ep \in Streamed
    /\ pc \in {"started", "end_event"}
    /\ pc' = "abandoned"
    /\ UNCHANGED <<cfgVars, loopVars, ep, sink, state, request_id,
                   router_request_id, result, response, modVars, storeVars,
                   logVars>>

AbandonNext ==
    \/ Next
    \/ ConsumerAbandons

\* every request is served as far as its consumer lets it
AbandonSpec == Init /\ [][AbandonNext]_vars /\ WF_vars(Serving)

\* ------------------------------------------------- concurrent requests
\* Several requests served by the one module-level image_service: each
\* handler invocation is a coroutine with its own locals, and control
\* passes from one to another only at an await.  Each action below is a
\* stretch of one run between two awaits, or shorter.

\* what the ConcSpec actions leave alone
seqVars == <<llm, openai_client, request, runVars, loopVars, modVars, logVars,
             uuidCtr>>

\* a uuid4() whose n-th value is the same in every run
RunUuidShared(r, n) == n

\* uuid4() as called by run r for the n-th time: a value no other call
\* returns, whatever the order in which the runs take their turns
RunUuid(r, n) == r * DrawsPerRun + n

\* the next values uuid4() gives run r
Fresh(r, k) == RunUuid(r, runs[r].drawn + k)

\* a store that dropped all its entries on a delete
WithoutAny(store, key) == <<>>

\* `del generated_images_store[request_id]`
Without(store, key) == [k \in DOMAIN store \ {key} |-> store[k]]

\* POST /images/generate and POST /images/generate/stream received: the
\* router draws its request_id; generate_images_with_progress draws its own
\* (line 667) and builds its WorkflowState
ConcStart(r) ==
    /\ runs[r].pc = "idle"
    /\ \E e \in {"generate", "images_stream"} :
          /\ runs' = [runs EXCEPT ![r] =
                         [@ EXCEPT !.ep = e, !.pc = "stages",
                                   !.router_request_id = Fresh(r, 1),
                                   !.request_id = IF e = "images_stream"
                                                  THEN Fresh(r, 2) ELSE NoId,
                                   !.drawn = IF e = "images_stream"
                                             THEN @ + 2 ELSE @ + 1]]
    /\ UNCHANGED <<seqVars, image_storage, generated_images_store, images,
                   maker, fetched>>

\* the stages before image generation, on the run's own WorkflowState: the
\* analysis and the prompts (reference loading and ad copy never set the
\* error and leave the prompts alone).  The workflow runs every stage;
\* generate_images_with_progress raises after a stage that set the error.
\* The text capability answers all the prompt calls of the run, or none.
ConcStagesStep(r) ==
    /\ runs[r].pc = "stages"
    /\ \E o1 \in LlmOutcomes :
       \E o3 \in LlmOutcomes :
          LET hand == runs[r].ep \in HandSequenced
              s1 == AnalyzeCompany(runs[r].state, o1).s
              s3 == IF hand /\ s1.error # None THEN s1
                    ELSE EnhancePrompts(s1, [i \in 1..Len(styles) |-> o3]).s
          IN runs' = [runs EXCEPT ![r] =
                        [@ EXCEPT !.state = s3,
                                  !.pc = IF hand /\ s3.error # None
                                         THEN "except" ELSE "generate_images"]]
    /\ UNCHANGED <<seqVars, image_storage, generated_images_store, images,
                   maker, fetched>>

\* the image stage up to its loop: _generate_images_node (476-484) sets the
\* error when there are no prompts and else draws its request_id; the loop
\* of generate_images_with_progress (777-780) uses the one drawn at 667
ConcImagesEntry(r) ==
    /\ runs[r].pc = "generate_images"
    /\ IF runs[r].ep \in GraphDriven
       THEN IF runs[r].state.enhanced_prompts = <<>>
            THEN runs' = [runs EXCEPT ![r] =
                            [@ EXCEPT !.state.error = "Image generation failed",
                                      !.pc = "graph_end"]]
            ELSE runs' = [runs EXCEPT ![r] =
                            [@ EXCEPT !.request_id = Fresh(r, 1),
                                      !.drawn = @ + 1,
                                      !.pc = "loop"]]
       ELSE runs' = [runs EXCEPT ![r] = [@ EXCEPT !.pc = "loop"]]
    /\ UNCHANGED <<seqVars, image_storage, generated_images_store, images,
                   maker, fetched>>

\* one iteration of the image loop of the run (486-503, 778-819): the
\* image comes back from _generate_single_image with a new id and the
\* run's request_id; what the call gave changes only its url
ConcLoopStep(r) ==
    /\ runs[r].pc = "loop"
    /\ runs[r].idx < Zipped(runs[r].state.enhanced_prompts)
    /\ LET i == runs[r].idx + 1
           one == GenerateSingleImage(runs[r].state.enhanced_prompts[i], styles[i],
                                      runs[r].request_id, "ok", Fresh(r, 1),
                                      "generate_images")
       IN /\ images' = (one.img.id :> one.img) @@ images
          /\ maker' = (one.img.id :> r) @@ maker
          /\ runs' = [runs EXCEPT ![r] =
                         [@ EXCEPT !.idx = i,
                                   !.drawn = @ + 1,
                                   !.image_list = Append(@, one.img.id)]]
    /\ UNCHANGED <<seqVars, image_storage, generated_images_store, fetched>>

\* after the loop: the store under the run's request_id (508, 830) and the
\* return of the node or of generate_images_with_progress
ConcLoopEnd(r) ==
    /\ runs[r].pc = "loop"
    /\ runs[r].idx = Zipped(runs[r].state.enhanced_prompts)
    /\ LET list == runs[r].image_list
           graph == runs[r].ep \in GraphDriven
       IN /\ image_storage' = IF list # <<>>
                               THEN (runs[r].request_id :> list) @@ image_storage
                               ELSE image_storage
          /\ runs' = [runs EXCEPT ![r] =
                         [@ EXCEPT !.state.generated_images = IF graph THEN list ELSE @,
                                   !.result = IF graph THEN @ ELSE list,
                                   !.wrote = IF list # <<>>
                                             THEN @ \cup {runs[r].request_id} ELSE @,
                                   !.idx = 0,
                                   !.image_list = <<>>,
                                   !.pc = IF graph THEN "graph_end" ELSE "returned"]]
    /\ UNCHANGED <<seqVars, generated_images_store, images, maker, fetched>>

\* generate_images after workflow.ainvoke (640-655): the fallback, or the
\* store of the same list under a second uuid4() and the relabelling
ConcGenerateReturn(r) ==
    /\ runs[r].pc = "graph_end"
    /\ LET s == runs[r].state
       IN IF s.error # None \/ s.generated_images = <<>>
          THEN /\ runs' = [runs EXCEPT ![r] = [@ EXCEPT !.pc = "fallback"]]
               /\ UNCHANGED <<image_storage, images>>
          ELSE LET rid == Fresh(r, 1)
               IN /\ image_storage' = (rid :> s.generated_images) @@ image_storage
                  /\ images' = [id \in DOMAIN images |->
                                  IF id \in Range(s.generated_images)
                                  THEN Relabel(images[id], rid)
                                  ELSE images[id]]
                  /\ runs' = [runs EXCEPT ![r] =
                                 [@ EXCEPT !.request_id = rid,
                                           !.drawn = @ + 1,
                                           !.result = s.generated_images,
                                           !.wrote = @ \cup {rid},
                                           !.pc = "returned"]]
    /\ UNCHANGED <<seqVars, generated_images_store, maker, fetched>>

\* the except branch of generate_images_with_progress (854-860) and the
\* start of _fallback_generation (864-868): a new request_id
ConcFallbackEntry(r) ==
    /\ runs[r].pc \in {"except", "fallback"}
    /\ runs' = [runs EXCEPT ![r] =
                   [@ EXCEPT !.request_id = Fresh(r, 1), !.drawn = @ + 1,
                             !.idx = 0, !.image_list = <<>>,
                             !.pc = "fallback_loop"]]
    /\ UNCHANGED <<seqVars, image_storage, generated_images_store, images,
                   maker, fetched>>

\* one iteration of the loop of _fallback_generation (869-872)
ConcFallbackLoopStep(r) ==
    /\ runs[r].pc = "fallback_loop"
    /\ runs[r].idx < Len(styles)
    /\ LET i == runs[r].idx + 1
           one == GenerateSingleImage(FallbackPrompt(FallbackStyle(i)),
                                      FallbackStyle(i), runs[r].request_id, "ok",
                                      Fresh(r, 1), "fallback")
       IN /\ images' = (one.img.id :> one.img) @@ images
          /\ maker' = (one.img.id :> r) @@ maker
          /\ runs' = [runs EXCEPT ![r] =
                         [@ EXCEPT !.idx = i,
                                   !.drawn = @ + 1,
                                   !.image_list = Append(@, one.img.id)]]
    /\ UNCHANGED <<seqVars, image_storage, generated_images_store, fetched>>

\* _fallback_generation after its loop (874-878)
ConcFallbackLoopEnd(r) ==
    /\ runs[r].pc = "fallback_loop"
    /\ runs[r].idx = Len(styles)
    /\ LET list == runs[r].image_list
       IN /\ image_storage' = IF list # <<>>
                               THEN (runs[r].request_id :> list) @@ image_storage
                               ELSE image_storage
          /\ runs' = [runs EXCEPT ![r] =
                         [@ EXCEPT !.result = list,
                                   !.wrote = IF list # <<>>
                                             THEN @ \cup {runs[r].request_id} ELSE @,
                                   !.idx = 0,
                                   !.image_list = <<>>,
                                   !.pc = "returned"]]
    /\ UNCHANGED <<seqVars, generated_images_store, images, maker, fetched>>

\* the router after the service returned (image_generation.py 37-44,
\* 82-88): the copies of the images kept under the router's request_id
ConcRouterReturn(r) ==
    /\ runs[r].pc = "returned"
    /\ generated_images_store' =
          IF runs[r].result # <<>>
          THEN (runs[r].router_request_id :> Dicts(runs[r].result))
                   @@ generated_images_store
          ELSE generated_images_store
    /\ runs' = [runs EXCEPT ![r] =
                   [@ EXCEPT !.wrote = IF runs[r].result # <<>>
                                       THEN @ \cup {runs[r].router_request_id}
                                       ELSE @,
                             !.pc = "done"]]
    /\ UNCHANGED <<seqVars, image_storage, images, maker, fetched>>

\* the ids a client asks for: those the router gave the runs, stored by
\* now, deleted or not, and one that names no request
AskedFor == {runs[r].router_request_id : r \in Runs} \cup {NoId}

\* a handler that takes every id for a stored one
FoundAlways(store, key) == TRUE

\* `request_id not in generated_images_store`, negated
Found(store, key) == key \in DOMAIN store

\* GET /images/request/{request_id} (135-143)
ConcGet ==
    /\ \E key \in AskedFor :
          fetched' =
              IF Found(generated_images_store, key)
              THEN [op |-> "get", key |-> key, code |-> 200,
                    body |-> IF key \in DOMAIN generated_images_store
                             THEN generated_images_store[key] ELSE <<>>]
              ELSE [op |-> "get", key |-> key, code |-> 404, body |-> <<>>]
    /\ UNCHANGED <<seqVars, image_storage, generated_images_store, images,
                   runs, maker>>

\* DELETE /images/request/{request_id} (165-174)
ConcDelete ==
    /\ \E key \in AskedFor :
          IF Found(generated_images_store, key)
          THEN /\ generated_images_store' = Without(generated_images_store, key)
               /\ fetched' = [op |-> "delete", key |-> key, code |-> 200,
                              body |-> <<>>]
          ELSE /\ fetched' = [op |-> "delete", key |-> key, code |-> 404,
                              body |-> <<>>]
               /\ UNCHANGED generated_images_store
    /\ UNCHANGED <<seqVars, image_storage, images, runs, maker>>

ConcNext ==
    \/ \E r \in Runs : ConcStart(r)
    \/ \E r \in Runs : ConcStagesStep(r)
    \/ \E r \in Runs : ConcImagesEntry(r)
    \/ \E r \in Runs : ConcLoopStep(r)
    \/ \E r \in Runs : ConcLoopEnd(r)
    \/ \E r \in Runs : ConcGenerateReturn(r)
    \/ \E r \in Runs : ConcFallbackEntry(r)
    \/ \E r \in Runs : ConcFallbackLoopStep(r)
    \/ \E r \in Runs : ConcFallbackLoopEnd(r)
    \/ \E r \in Runs : ConcRouterReturn(r)
    \/ ConcGet
    \/ ConcDelete

\* the service as constructed, serving requests without the free texts
ConcInit == Init /\ request.body_text = ""

ConcSpec == ConcInit /\ [][ConcNext]_vars

\* ------------------------------------------------------------ observations
\* the image calls the image-generation stage made for the request served
StageImageCalls ==
    {k \in DOMAIN capLog :
        capLog[k].kind = "image" /\ capLog[k].by = "generate_images"}

\* those of them that gave no image
FailedStageCalls == {k \in StageImageCalls : capLog[k].gave = "nothing"}

\* the image calls _fallback_generation made for the request served
FallbackCalls ==
    {k \in DOMAIN capLog : capLog[k].kind = "image" /\ capLog[k].by = "fallback"}

\* the runs whose caller is told of progress: the two streams and the
\* run with a progress callback
ProgressReporting == Streamed \cup {"progress"}

\* ------------------------------------------------------------------ claims

\* C1: a stage is invoked only while the failure field of the state is
\* unset: once a stage has set it, no later stage of the run is invoked
C1_NoStageAfterFailure ==
    \A i \in DOMAIN invoked : invoked[i].errBefore = None

\* C2: on both streaming routes the stream never carries an event after an
\* `end` event, so it carries at most one, and every streamed generation
\* eventually has `end` as the last event of its stream
C2_EndEventOnceLast ==
    /\ [](\A i \in DOMAIN stream : stream[i].type = "end" => i = Len(stream))
    /\ [](ep \in Streamed => <>(stream # <<>> /\ stream[Len(stream)].type = "end"))

\* C2 witness: a stream whose stage failed, served by the fallback, closed
C2_ClosedAfterStageFailure ==
    /\ ep = "images_stream"
    /\ pc = "done"
    /\ FallbackCalls # {}
    /\ stream[Len(stream)].type = "end"

\* C3: the stages invoked in a run are, in order, an initial part of
\* analyze_company, load_references, enhance_prompts, generate_copy,
\* generate_images: none is invoked twice and none before its predecessors
C3_StagesInFixedOrder ==
    /\ Len(invoked) <= Len(StageNames)
    /\ \A i \in DOMAIN invoked : invoked[i].stage = StageNames[i]

\* C3 witness: the graph has run all five stages
C3_AllFiveInvoked ==
    /\ ep \in GraphDriven
    /\ Len(invoked) = Len(StageNames)

\* C4: in a progress-reporting run the progress event of a stage is on the
\* channel before the stage is invoked, and the completion event of a stage
\* comes after its invocation and before the progress event of the next stage
C4_ProgressBracketsStages ==
    ep \in ProgressReporting =>
        \A i \in DOMAIN invoked :
            LET step == StepName(invoked[i].stage)
            IN /\ \E j \in 1..invoked[i].seen : Channel[j] = Ev("progress", step)
               /\ \A j \in DOMAIN Channel :
                     Channel[j] = Ev("step_completed", step) =>
                        /\ j > invoked[i].seen
                        /\ \A k \in DOMAIN Channel :
                              (/\ i < Len(StageNames)
                               /\ Channel[k] =
                                     Ev("progress", StepName(StageNames[i + 1])))
                              => j < k

\* C5: when the image-generation stage of the graph had prompts and every
\* image call it made gave nothing, it ends with no image and with the
\* failure field set; and whenever it ends with no image the field is set
C5_ZeroImagesSetsFailure ==
    (pc = "graph_end" /\ StageImageCalls # {}) =>
        /\ FailedStageCalls = StageImageCalls =>
              state.generated_images = <<>> /\ state.error # None
        /\ state.generated_images = <<>> => state.error # None

\* C6: in a hand-sequenced run in which exactly one image call of the stage
\* gave nothing, the run returns four images, none of them for the failed
\* style, and its generation_complete event reports four
C6_FailedStyleOmitted ==
    (/\ ep \in HandSequenced
     /\ pc \in {"returned", "done"}
     /\ Cardinality(StageImageCalls) = Len(styles)
     /\ Cardinality(FailedStageCalls) = 1) =>
        /\ Len(result) = Len(styles) - 1
        /\ \A k \in FailedStageCalls :
           \A i \in DOMAIN result : images[result[i]].style # capLog[k].arg
        /\ sink => /\ cb[Len(cb)].type = "generation_complete"
                   /\ cb[Len(cb)].n = Len(styles) - 1

\* C7: the image-generation stage makes at most five image calls, and every
\* one of them but the first comes right after a sleep of RateLimitDelay
\* made by the stage, whatever the earlier calls gave
C7_PacedImageCalls ==
    /\ Cardinality(StageImageCalls) <= Len(styles)
    /\ \A k \in StageImageCalls :
          (\E j \in StageImageCalls : j < k) =>
              /\ k > 1
              /\ capLog[k - 1] = Sleep("generate_images")
              /\ capLog[k - 1].dur >= RateLimitDelay

\* C7 witness: five calls were made and one that gave nothing was followed
\* by another
C7_FiveCallsAfterFailure ==
    /\ Cardinality(StageImageCalls) = Len(styles)
    /\ \E k \in FailedStageCalls : \E j \in StageImageCalls : j > k

\* C8: when a request has been served, every key of the result store holds
\* images that all carry that key as their request_id
C8_StoredImagesCarryTheirKey ==
    pc = "done" =>
        \A key \in DOMAIN image_storage :
        \A i \in DOMAIN image_storage[key] :
            images[image_storage[key][i]].request_id = key

\* C9: when the copy stage has returned, a non-empty footer_text of the
\* request is the cta of the copy and a non-empty body_text its description
C9_CallerTextOverridesCopy ==
    (pc = "generate_images" /\ Len(invoked) = 4) =>
        /\ request.footer_text # "" => state.ad_copy.cta = request.footer_text
        /\ request.body_text # "" => state.ad_copy.description = request.body_text

\* C10: a modification made without the image capability, or whose image
\* call gave nothing, is answered with an error, and no successful answer
\* carries a placeholder
C10_ModifyFailureReported ==
    ep = "modify" =>
        /\ (\/ ~openai_client
            \/ \E k \in DOMAIN capLog : capLog[k].gave = "nothing")
           => modify_response.status = "error"
        /\ modify_response.status = "success" =>
              modify_response.image[1].url # "placeholder_modified"

\* C11: a modification request that names no generated file is answered
\* with a not-found error (404), and the result store holds the same
\* sessions after it as before
C11_UnknownImageNotFound ==
    (ep = "modify" /\ modify_request.url = "unknown") =>
        /\ modify_response.status = "error"
        /\ modify_response.code = 404
        /\ DOMAIN image_storage = modify_request.sessions

\* the runs that go through the five stages
PipelineRuns == GraphDriven \cup HandSequenced

\* C12: with neither capability, no stage ever sets the failure field, the
\* copy stage leaves the template record of the capability-less branch, and
\* a pipeline run returns five images, the i-th of the i-th style and with
\* the placeholder location
C12_NoCapabilityRun ==
    (~llm /\ ~openai_client) =>
        /\ state.error = None
        /\ (pc = "generate_images" /\ Len(invoked) = 4) =>
              state.ad_copy = [headline |-> "Transform Your Business with",
                               description |-> "Discover how",
                               cta |-> "Book a Call"]
        /\ (ep \in PipelineRuns /\ pc \in {"returned", "done"}) =>
              /\ Len(result) = Len(styles)
              /\ \A i \in DOMAIN result :
                    /\ images[result[i]].style = styles[i]
                    /\ images[result[i]].url = "placeholder_nokey"

\* C12 witness: such a run has returned its five placeholders
C12_FivePlaceholdersReturned ==
    /\ ~llm
    /\ ~openai_client
    /\ ep \in PipelineRuns
    /\ pc = "done"
    /\ Len(result) = Len(styles)

\* C13: when the prompt-enhancement stage has returned without setting its
\* error, enhanced_prompts has five entries and the i-th is the prompt built
\* for the i-th style, by the capability when there is one and by
\* _create_fallback_prompt_for_style when there is none
C13_FivePromptsInStyleOrder ==
    (pc = "generate_copy" /\ state.error # "Prompt enhancement failed") =>
        /\ Len(state.enhanced_prompts) = Len(styles)
        /\ \A i \in DOMAIN state.enhanced_prompts :
              state.enhanced_prompts[i] =
                 <<IF llm THEN "enhanced_prompt" ELSE "fallback_prompt_for_style",
                   styles[i]>>

\* C13 witness: the stage has returned five prompts of the capability
C13_CapabilityPromptsReturned ==
    /\ pc = "generate_copy"
    /\ llm
    /\ state.error = None
    /\ Len(state.enhanced_prompts) = Len(styles)

\* C14: the reference-loading stage never sets the failure field, whatever
\* the pool holds and whatever reading and uploading do, so a hand-sequenced
\* run never leaves for its except branch after it; when the directory is
\* missing the reference list is empty and no error event has been emitted
C14_ReferenceLoadingNeverFails ==
    /\ pc = "enhance_prompts" => state.error = invoked[2].errBefore
    /\ ~(pc = "except" /\ Len(invoked) = 2)
    /\ (pc = "enhance_prompts" /\ invoked[2].note = "no_directory") =>
          /\ state.reference_images = <<>>
          /\ \A j \in DOMAIN Channel : Channel[j].type # "error"

\* C14 witness: a progress-reporting run went through the stage with the
\* directory missing
C14_MissingDirectoryLoaded ==
    /\ ep = "progress"
    /\ pc = "enhance_prompts"
    /\ invoked[2].note = "no_directory"

\* the caller of this request was sent a pipeline-level error event
PipelineErrorEmitted == \E j \in DOMAIN Channel : Channel[j] = Ev("error", "-")

\* the caller of this request was sent a list of generated images
ImagesAnnounced ==
    \E j \in DOMAIN Channel : Channel[j].type \in {"completed", "generation_complete"}

C16_CompleteAfterStore ==
    \A j \in DOMAIN cb :
        cb[j].type = "generation_complete" =>
            /\ cb[j].imgs # <<>>
            /\ cb[j].request_id \in DOMAIN image_storage
            /\ image_storage[cb[j].request_id] = cb[j].imgs
            /\ \A i \in DOMAIN cb[j].imgs :
                  images[cb[j].imgs[i]].request_id = cb[j].request_id

\* C16 witness: a generation_complete event has been emitted
C16_CompleteEmitted ==
    \E j \in DOMAIN cb : cb[j].type = "generation_complete"

\* C17: the fallback path makes no text-completion call; while its loop
\* runs it has taken one image per style passed, in the order of styles,
\* and with an image capability the last calls logged are its image calls,
\* one per style passed, in that order and whatever they gave; once the
\* loop is over it has made one call for each of the five styles
C17_FallbackAttemptsEveryStyle ==
    /\ \A k \in DOMAIN capLog :
          capLog[k].by = "fallback" => capLog[k].kind = "image"
    /\ pc = "fallback_loop" =>
          /\ Len(image_list) = idx
          /\ \A i \in 1..idx : images[image_list[i]].style = styles[i]
          /\ openai_client =>
                /\ Cardinality(FallbackCalls) = idx
                /\ Len(capLog) >= idx
                /\ \A i \in 1..idx :
                      LET call == capLog[Len(capLog) - idx + i]
                      IN /\ call.kind = "image"
                         /\ call.by = "fallback"
                         /\ call.arg = styles[i]
    /\ (openai_client /\ pc # "fallback_loop" /\ FallbackCalls # {}) =>
          Cardinality(FallbackCalls) = Len(styles)

\* C17 witness: the fallback loop is over and each of its five image calls
\* gave nothing
C17_FiveFailedFallbackCalls ==
    /\ pc = "fallback_loop"
    /\ idx = Len(styles)
    /\ Cardinality(FallbackCalls) = Len(styles)
    /\ \A k \in FallbackCalls : capLog[k].gave = "nothing"

\* C18: without the text-completion handle no text-completion call is
\* ever logged and the analysis stage leaves its template analysis;
\* without the image handle no image call and no file upload is ever
\* logged, and every image made, by the stages, the fallback path or a
\* modification, has a placeholder location
C18_AbsentHandleNeverCalled ==
    /\ ~llm =>
          /\ \A k \in DOMAIN capLog : capLog[k].kind # "llm"
          /\ pc = "load_references" => state.company_analysis = "fallback_analysis"
    /\ ~openai_client =>
          /\ \A k \in DOMAIN capLog : capLog[k].kind \notin {"image", "upload"}
          /\ \A id \in DOMAIN images : images[id].url = "placeholder_nokey"
          /\ (ep = "modify" /\ modify_response.status = "success") =>
                modify_response.image[1].url = "placeholder_modified"

\* C18 witness: without the handles a pipeline run went through its five
\* stages over a directory of reference files and returned its images
C18_RunWithoutHandles ==
    /\ ~llm
    /\ ~openai_client
    /\ ep \in PipelineRuns
    /\ pc = "done"
    /\ Len(invoked) = Len(StageNames)
    /\ invoked[2].note = "directory"
    /\ Len(result) = Len(styles)

\* what the two stores hold under a key: the images listed in
\* self.image_storage, as they are now, and the copies the router keeps
SessionEntry(key) ==
    [stored |-> IF key \in DOMAIN image_storage
                THEN [i \in DOMAIN image_storage[key] |->
                         images[image_storage[key][i]]]
                ELSE <<>>,
     kept |-> IF key \in DOMAIN generated_images_store
              THEN generated_images_store[key]
              ELSE <<>>]

C20_AbandonedRunStillEnds ==
    [](ep = "images_stream" =>
          <>(\E j \in DOMAIN stream : stream[j].type \in {"completed", "error"}))

\* C21: a run that returned images leaves copies of them under the id the
\* router answers with; an entry leaves the router's store only by a
\* DELETE of its id answered 200; a GET answered 200 gives the images of
\* the run whose id was asked for, and a GET or DELETE is answered 404
\* exactly for an id that is not stored (never stored, or deleted) and then
\* changes nothing; a DELETE answered 200 removes the entry asked for and
\* leaves every other entry as it was; no GET changes a store
C21_StoreAccessors ==
    [][
        /\ \A r \in Runs :
             (runs[r].pc = "returned" /\ runs'[r].pc = "done"
                /\ runs[r].result # <<>>) =>
                 /\ runs'[r].router_request_id \in DOMAIN generated_images_store'
                 /\ generated_images_store'[runs'[r].router_request_id] =
                        [i \in DOMAIN runs[r].result |-> images[runs[r].result[i]]]
        /\ \A key \in DOMAIN generated_images_store \ DOMAIN generated_images_store' :
             fetched' = [op |-> "delete", key |-> key, code |-> 200, body |-> <<>>]
        /\ fetched' # fetched =>
             /\ image_storage' = image_storage
             /\ images' = images
             /\ (fetched'.code = 404) = (fetched'.key \notin DOMAIN generated_images_store)
             /\ fetched'.code = 404 => generated_images_store' = generated_images_store
             /\ (fetched'.op = "get" /\ fetched'.code = 200) =>
                   /\ generated_images_store' = generated_images_store
                   /\ fetched'.body = generated_images_store[fetched'.key]
                   /\ \E r \in Runs :
                         /\ runs[r].router_request_id = fetched'.key
                         /\ Len(fetched'.body) = Len(runs[r].result)
                         /\ \A i \in DOMAIN fetched'.body :
                               /\ fetched'.body[i].id = runs[r].result[i]
                               /\ maker[fetched'.body[i].id] = r
             /\ (fetched'.op = "delete" /\ fetched'.code = 200) =>
                   /\ fetched'.key \notin DOMAIN generated_images_store'
                   /\ \A key \in DOMAIN generated_images_store \ {fetched'.key} :
                         /\ key \in DOMAIN generated_images_store'
                         /\ generated_images_store'[key] = generated_images_store[key]
    ]_vars

\* C21 witness: the images of a run were stored and deleted, a GET of
\* their id has been answered not-found, and another run's are still stored
C21_GetAfterDelete ==
    /\ fetched.op = "get"
    /\ fetched.code = 404
    /\ \E r \in Runs :
          /\ runs[r].router_request_id = fetched.key
          /\ fetched.key \in runs[r].wrote
    /\ DOMAIN generated_images_store # {}

\* C22: every image call of the fallback path but its first comes right
\* after a sleep of at least RateLimitDelay
C22_FallbackPaced ==
    \A k \in FallbackCalls :
        (\E j \in FallbackCalls : j < k) =>
            /\ k > 1
            /\ capLog[k - 1].kind = "sleep"
            /\ capLog[k - 1].dur >= RateLimitDelay

\* C23: while _fallback_generation runs for a request served by
\* generate_images or generate_images_with_progress, the result store holds
\* no images of the image-generation stage of that request
C23_FallbackOnlyWithoutImages ==
    (pc \in {"fallback", "fallback_loop"}
        /\ ep \in {"generate", "images_stream", "progress"}) =>
        image_storage = <<>>

\* C24: while an image loop of the image-generation stage runs, every
\* image call the stage has made carried the reference images that the
\* state holds
C24_CallsCarryReferences ==
    pc \in {"node_loop", "progress_loop"} =>
        \A k \in StageImageCalls : capLog[k].refs = state.reference_images

\* C25: in every step each image stays as it is, or else its request_id
\* goes from unset to the key of a session that lists it and nothing else
\* of it changes
C25_SessionIdSetOnce ==
    [][\A id \in DOMAIN images :
          \/ images'[id] = images[id]
          \/ /\ images[id].request_id = NoId
             /\ images'[id] = [images[id] EXCEPT !.request_id = images'[id].request_id]
             /\ images'[id].request_id \in DOMAIN image_storage'
             /\ id \in Range(image_storage'[images'[id].request_id])
    ]_vars

\* C26: after every step no entry of self.image_storage or of the router's
\* store is an empty list, every entry self.image_storage held before the
\* step is still there with the same list, and every entry the router's
\* store held is either gone as a whole or there with the same list
C26_EntriesWrittenOnce ==
    [][
        /\ \A key \in DOMAIN image_storage' : image_storage'[key] # <<>>
        /\ \A key \in DOMAIN generated_images_store' :
             generated_images_store'[key] # <<>>
        /\ \A key \in DOMAIN image_storage :
             /\ key \in DOMAIN image_storage'
             /\ image_storage'[key] = image_storage[key]
        /\ \A key \in DOMAIN generated_images_store :
             \/ key \notin DOMAIN generated_images_store'
             \/ generated_images_store'[key] = generated_images_store[key]
    ]_vars

\* C26 witness: three sessions are stored in self.image_storage, and the
\* router's store still holds an entry after another was deleted
C26_EntriesOutliveLaterWrites ==
    /\ Cardinality(DOMAIN image_storage) >= 3
    /\ fetched.op = "delete"
    /\ fetched.code = 200
    /\ DOMAIN generated_images_store # {}

\* C27: the state never holds a list of prompts that is neither empty nor
\* of five, and when the prompt-enhancement stage has returned after one of
\* its text calls raised, the error is the stage's and no prompt is set
C27_NoPartialPrompts ==
    /\ Len(state.enhanced_prompts) \in {0, Len(styles)}
    /\ (pc \in {"generate_copy", "except"} /\ Len(invoked) = 3
          /\ \E k \in DOMAIN capLog :
                capLog[k].by = "enhance_prompts" /\ capLog[k].gave = "raised") =>
            /\ state.error = "Prompt enhancement failed"
            /\ state.enhanced_prompts = <<>>

\* C27 witness: the stage returned after its third call raised, the first
\* two having answered
C27_ThirdCallRaised ==
    /\ pc \in {"generate_copy", "except"}
    /\ Len(invoked) = 3
    /\ \E k \in DOMAIN capLog :
          /\ k > 2
          /\ capLog[k] = LlmCallRaised("enhance_prompts")
          /\ capLog[k - 1] = LlmCall("enhance_prompts")
          /\ capLog[k - 2] = LlmCall("enhance_prompts")
          /\ k = Len(capLog)

\* C28: when the analysis stage has returned, either there is no text
\* capability, no call was made, the analysis is the template one and no
\* error is set; or the call answered, the analysis is its text and no
\* error is set; or the call raised, the error is set and the analysis is
\* unset; and after a call of the analysis stage raised, no other stage is
\* invoked in the run
C28_AnalysisThreeWays ==
    /\ (Len(invoked) = 1 /\ pc \in {"load_references", "except"}) =>
          \/ /\ ~llm
             /\ capLog = <<>>
             /\ state.company_analysis = "fallback_analysis"
             /\ state.error = None
          \/ /\ llm
             /\ capLog = <<LlmCall("analyze_company")>>
             /\ state.company_analysis = "llm_analysis"
             /\ state.error = None
          \/ /\ llm
             /\ capLog = <<LlmCallRaised("analyze_company")>>
             /\ state.company_analysis = None
             /\ state.error # None
    /\ (\E k \in DOMAIN capLog : capLog[k] = LlmCallRaised("analyze_company")) =>
          Len(invoked) <= 1

\* C29: when the ad-copy stage has returned, the error is what it was
\* when the stage was invoked and the copy has a headline, a description
\* and a cta
C29_CopyAlwaysComplete ==
    (Len(invoked) = 4 /\ pc = "generate_images") =>
        /\ state.error = invoked[4].errBefore
        /\ state.ad_copy.headline # None
        /\ state.ad_copy.description # None
        /\ state.ad_copy.cta # None

\* C30: in a run that reports to a sink, every image_ready event carries
\* an image that was generated (not the placeholder of a failed call), the
\* image_ready events come in style order, the image_generation error
\* events are as many as the image calls of the stage that gave nothing, and
\* a generation_complete event reports as many images as there were
\* image_ready events
C30_ImageEventsMatchOutcomes ==
    Emits =>
        LET ready == {j \in DOMAIN cb : cb[j].type = "image_ready"}
            failed == {j \in DOMAIN cb : cb[j] = Ev("error", "image_generation")}
        IN /\ \A j \in ready : images[cb[j].imgs[1]].url # "placeholder_error"
           /\ Cardinality(failed) = Cardinality(FailedStageCalls)
           /\ \A i, j \in ready : i < j => cb[i].n < cb[j].n
           /\ \A j \in DOMAIN cb :
                 cb[j].type = "generation_complete" =>
                    cb[j].n = Cardinality(ready)

\* the parts of a prompt
Parts(prompt) == {prompt[i] : i \in DOMAIN prompt}

\* C31: a modification that succeeds with the image capability present has
\* made exactly one image call, no sleep came before it, and the prompt of
\* the call contains the modification instruction, the constraints to keep
\* and the prompt of the image the request names
C31_ModifyCallsOnceWithOriginalPrompt ==
    (ep = "modify" /\ openai_client /\ modify_response.status = "success") =>
        LET calls == {k \in DOMAIN capLog : capLog[k].kind = "image"}
        IN /\ Cardinality(calls) = 1
           /\ \A j \in DOMAIN capLog : capLog[j].kind # "sleep"
           /\ \A k \in calls :
                 /\ <<"instruction", modify_request.instruction>>
                       \in Parts(capLog[k].prompt)
                 /\ <<"best_practices", "-">> \in Parts(capLog[k].prompt)
                 /\ \E t \in Range(result) :
                       /\ images[t].url = modify_request.url
                       /\ images[t].prompt_used \in Parts(capLog[k].prompt)

C32_ModifyReturnsNewImage ==
    [][
        modified' = modified + 1 =>
            /\ image_storage' = image_storage
            /\ images' = images
            /\ modify_response'.status = "success" =>
                  /\ modify_response'.image[1].id \notin DOMAIN images
                  /\ \A key \in DOMAIN image_storage :
                     \A i \in DOMAIN image_storage[key] :
                         image_storage[key][i] # modify_response'.image[1].id
    ]_vars

\* C32 witness: a modification made with the image capability succeeded
\* while the result store held a session
C32_ModifiedWhileStored ==
    /\ ep = "modify"
    /\ openai_client
    /\ modify_response.status = "success"
    /\ image_storage # <<>>

\* C34: when generate_images or generate_images_with_workflow has returned
\* images, the result store, empty before the call, holds exactly one
\* session, and no image is held under two session ids
C34_OneSessionPerCall ==
    (ep \in GraphDriven /\ pc \in {"returned", "done"} /\ result # <<>>) =>
        /\ Cardinality(DOMAIN image_storage) = 1
        /\ \A k1, k2 \in DOMAIN image_storage :
              k1 # k2 => Range(image_storage[k1]) \cap Range(image_storage[k2]) = {}

\* C35: the request_id of a successful response, and the request_id of the
\* completed event of a stream, which is the one its started event
\* carried, is a key of the result store of the service, holds there the
\* images returned, and is the request_id each of these images carries
C35_AnnouncedIdIsTheSession ==
    /\ (ep = "generate" /\ response.status = "success") =>
          /\ response.request_id \in DOMAIN image_storage
          /\ image_storage[response.request_id] = response.imgs
          /\ \A i \in DOMAIN response.imgs :
                images[response.imgs[i]].request_id = response.request_id
    /\ ep = "images_stream" =>
          \A j \in DOMAIN stream :
              stream[j].type = "completed" =>
                 /\ stream[1].type = "started"
                 /\ stream[1].request_id = stream[j].request_id
                 /\ stream[j].request_id \in DOMAIN image_storage
                 /\ image_storage[stream[j].request_id] = stream[j].imgs
                 /\ \A i \in DOMAIN stream[j].imgs :
                       images[stream[j].imgs[i]].request_id = stream[j].request_id

\* the image calls made for the request being served, by the stage and by
\* the fallback together
AllImageCalls == {k \in DOMAIN capLog : capLog[k].kind = "image"}

\* C36: a generation request makes at most five image calls, those of the
\* image-generation stage and those of the fallback counted together
C36_AtMostFiveImageCalls ==
    ep \in PipelineRuns => Cardinality(AllImageCalls) <= Len(styles)

\* C37: once the failure field was set when a stage was invoked, every
\* later stage of the run is invoked with the same value in it, and the
\* workflow ends with that value
C37_FirstFailureKept ==
    \A i \in DOMAIN invoked :
        invoked[i].errBefore # None =>
            /\ \A j \in DOMAIN invoked :
                  j > i => invoked[j].errBefore = invoked[i].errBefore
            /\ pc = "graph_end" => state.error = invoked[i].errBefore

\* generate_images, or generate_images_with_progress called without a
\* sink, has returned to its caller
ReturnedWithoutSink ==
    /\ ep \in {"generate", "images_stream", "progress"}
    /\ ~Emits
    /\ pc \in {"returned", "end_event", "done"}

\* C38: every call of generate_images, and of generate_images_with_progress
\* without a sink, eventually returns, and what it returns is a list of
\* exactly five images, the i-th of them in the i-th style
C38_AlwaysReturnsFiveImages ==
    /\ [](ReturnedWithoutSink =>
            /\ Len(result) = Len(styles)
            /\ \A i \in DOMAIN result : images[result[i]].style = styles[i])
    /\ []((ep \in {"generate", "images_stream", "progress"} /\ ~Emits)
            => <>ReturnedWithoutSink)

\* C38 witness: a run without a sink returned after a call of the prompt
\* stage had raised and an image call of the fallback had given nothing
C38_ReturnedAfterFailures ==
    /\ ReturnedWithoutSink
    /\ \E k \in DOMAIN capLog : capLog[k] = LlmCallRaised("enhance_prompts")
    /\ \E k \in FallbackCalls : capLog[k].gave = "nothing"

\* C39: a closed /stream/generate stream carries for each of the five
\* stages exactly one progress event and at most one step_completed event
C39_EachStageAnnouncedOnce ==
    (ep = "stream_generate" /\ pc = "done") =>
        \A i \in DOMAIN StageNames :
            LET step == StepName(StageNames[i])
            IN /\ Cardinality({j \in DOMAIN stream :
                                  stream[j] = Ev("progress", step)}) = 1
               /\ Cardinality({j \in DOMAIN stream :
                                  stream[j] = Ev("step_completed", step)}) <= 1

\* C40: when the last request answered was a DELETE answered 200, neither
\* the store of the router nor the result store of the service holds an
\* image of the run whose id was deleted
C40_DeletedFromEveryStore ==
    (fetched.op = "delete" /\ fetched.code = 200) =>
        /\ fetched.key \notin DOMAIN generated_images_store
        /\ \A r \in Runs :
              runs[r].router_request_id = fetched.key =>
                  \A k \in DOMAIN image_storage :
                      Range(image_storage[k]) \cap Range(runs[r].result) = {}

====
